---- MODULE Spec2Model ----
(***************************************************************************)
(* A model of the iDRAC gateway: the credential store (database.rs), the   *)
(* request handlers (handlers.rs), the session configuration (main.rs) and *)
(* the power-control client (idrac.rs).                                    *)
(***************************************************************************)
EXTENDS Naturals, Sequences, FiniteSets, TLC

VARIABLES
    db,          \* the users table: [schema, users, nextId]
    initpc,      \* position of each Database::new call
    reg,         \* position of each in-flight register request
    issued,      \* every session cookie handed out so far (clients keep copies)
    now,         \* wall clock, in hours
    resp,        \* the last HTTP response a handler produced
    remoteCalls, \* requests the power handlers sent to the management controller
    authPassed,  \* power requests for which check_auth returned Ok
    last,        \* the last direct call of a Database method and what it returned
    created,     \* username -> what a successful create_user was given / returned
    ret,         \* the last PowerControlClient call that returned, and its result
    calls,       \* the PowerControlClient calls in progress, one slot per caller
    requests,    \* requests PowerControlClient calls put on the wire
    invocations, \* PowerControlClient calls started
    secret_key   \* the cookie key each process generated at startup

vars == <<db, initpc, reg, issued, now, resp, remoteCalls, authPassed, last, created,
          ret, calls, requests, invocations, secret_key>>

(***************************************************************************)
(* Bounds and input sets.                                                  *)
(***************************************************************************)
MaxTokens == 2
MaxRemote == 2
MaxInvocations == 2

Procs == {1, 2}
RegIds == {1, 2}
CallIds == {1, 2}
Salts == {1, 2}
Usernames == {"admin", "alice", "Alice"}
Passwords == {"", "password1", "password2"}
TimePoints == {0, 23, 24}
\* Which key of a process is in use: its first, or the one after a restart.
KeyDraws == {1, 2}

(***************************************************************************)
(* Result<T, E> and Option<T>.                                             *)
(***************************************************************************)
Ok(v) == [ok |-> TRUE, val |-> v]
Err(e) == [ok |-> FALSE, err |-> e]
Some(v) == [some |-> TRUE, val |-> v]
None == [some |-> FALSE]

(***************************************************************************)
(* The rusqlite::Error values the store produces.  A failed pool.get() and *)
(* a failed bcrypt call are both wrapped in ToSqlConversionFailure; a      *)
(* violated UNIQUE(username) is SQLite's own constraint failure.           *)
(***************************************************************************)
PoolError == [kind |-> "ToSqlConversionFailure", cause |-> "r2d2"]
HashError == [kind |-> "ToSqlConversionFailure", cause |-> "bcrypt"]
UniqueViolation == [kind |-> "SqliteFailure", cause |-> "UNIQUE constraint failed: users.username"]

\* What the environment does to one call: whether a pooled connection is
\* obtained and whether bcrypt::hash succeeds.
EnvOk == [pool |-> TRUE, hash |-> TRUE]
PoolDown == [pool |-> FALSE, hash |-> TRUE]
HashDown == [pool |-> TRUE, hash |-> FALSE]
Envs == {EnvOk, PoolDown, HashDown}
PoolEnvs == {EnvOk, PoolDown}

(***************************************************************************)
(* bcrypt.  The digest is an idealised one-way function of cost, salt and  *)
(* password; a hash carries its cost and salt, as the bcrypt string does.  *)
(***************************************************************************)
DEFAULT_COST == 12
Digest(cost, salt, password) == <<cost, salt, password>>
hash(password, cost, salt) ==
    [cost |-> cost, salt |-> salt, digest |-> Digest(cost, salt, password)]
\* A verification that recomputes the digest under a fixed salt.
verify_fixed_salt(password, h) == Digest(h.cost, 1, password) = h.digest
verify(password, h) == Digest(h.cost, h.salt, password) = h.digest

(***************************************************************************)
(* Database (database.rs).  Each method is a function of the table and its *)
(* arguments and returns the Result and the table afterwards.              *)
(***************************************************************************)
User(id, username, password_hash) ==
    [id |-> id, username |-> username, password_hash |-> password_hash]

FreshDb == [schema |-> FALSE, users |-> {}, nextId |-> 1]
EmptyDb == [schema |-> TRUE, users |-> {}, nextId |-> 1]

\* COUNT(*) compared with >= 0.
has_users_nonneg(d, env) ==
    IF ~env.pool THEN Err(PoolError)
    ELSE Ok(Cardinality(d.users) >= 0)

has_users(d, env) ==
    IF ~env.pool THEN Err(PoolError)
    ELSE Ok(Cardinality(d.users) > 0)

\* INSERT OR REPLACE in place of INSERT.
create_user_replace(d, username, password, salt, env) ==
    IF ~env.hash THEN [res |-> Err(HashError), db |-> d]
    ELSE IF ~env.pool THEN [res |-> Err(PoolError), db |-> d]
    ELSE [res |-> Ok(d.nextId),
          db |-> [d EXCEPT
                    !.users = {u \in @ : u.username # username}
                              \cup {User(d.nextId, username,
                                          hash(password, DEFAULT_COST, salt))},
                    !.nextId = @ + 1]]

\* usernames compared without regard to case (UNIQUE COLLATE NOCASE).
Lower(username) == IF username = "Alice" THEN "alice" ELSE username
create_user_nocase(d, username, password, salt, env) ==
    IF ~env.hash THEN [res |-> Err(HashError), db |-> d]
    ELSE IF ~env.pool THEN [res |-> Err(PoolError), db |-> d]
    ELSE IF \E u \in d.users : Lower(u.username) = Lower(username)
         THEN [res |-> Err(UniqueViolation), db |-> d]
    ELSE [res |-> Ok(d.nextId),
          db |-> [d EXCEPT
                    !.users = @ \cup {User(d.nextId, username,
                                           hash(password, DEFAULT_COST, salt))},
                    !.nextId = @ + 1]]

create_user(d, username, password, salt, env) ==
    IF ~env.hash THEN [res |-> Err(HashError), db |-> d]
    ELSE IF ~env.pool THEN [res |-> Err(PoolError), db |-> d]
    ELSE IF \E u \in d.users : u.username = username
         THEN [res |-> Err(UniqueViolation), db |-> d]
    ELSE [res |-> Ok(d.nextId),
          db |-> [d EXCEPT
                    !.users = @ \cup {User(d.nextId, username,
                                           hash(password, DEFAULT_COST, salt))},
                    !.nextId = @ + 1]]

\* A lookup miss surfaced as the QueryReturnedNoRows error.
verify_user_no_rows(d, username, password, env) ==
    IF ~env.pool THEN Err(PoolError)
    ELSE IF ~(\E u \in d.users : u.username = username)
    THEN Err([kind |-> "QueryReturnedNoRows", cause |-> "Query returned no rows"])
    ELSE LET user == CHOOSE u \in d.users : u.username = username
         IN  IF verify(password, user.password_hash)
             THEN Ok(Some(user))
             ELSE Ok(None)

verify_user(d, username, password, env) ==
    IF ~env.pool THEN Err(PoolError)
    ELSE IF ~(\E u \in d.users : u.username = username) THEN Ok(None)
    ELSE LET user == CHOOSE u \in d.users : u.username = username
         IN  IF verify(password, user.password_hash)
             THEN Ok(Some(user))
             ELSE Ok(None)

get_user_by_id(d, user_id, env) ==
    IF ~env.pool THEN Err(PoolError)
    ELSE IF ~(\E u \in d.users : u.id = user_id) THEN Ok(None)
    ELSE Ok(Some(CHOOSE u \in d.users : u.id = user_id))

(***************************************************************************)
(* Sessions (main.rs: SessionMiddleware over CookieSessionStore with the   *)
(* process key and session_ttl 24 h).  A cookie carries the user_id and    *)
(* its issuance time under a tag only the key's holder can compute.        *)
(***************************************************************************)
\* A two-day lifetime.
SESSION_TTL_two_days == 2 * 24
SESSION_TTL == 24

\* Key::generate(): random bytes, here the n-th key process p has drawn; no
\* two draws give the same key.
NoKey(p) == [p |-> p, n |-> 0]
\* A key that is the same at every start.
generate_fixed(old) == [old EXCEPT !.n = 1]
generate(old) == [old EXCEPT !.n = @ + 1]

NoToken == [kind |-> "none"]
Malformed == [kind |-> "garbage"]
Removal == [kind |-> "removal"]
Mac(key, user_id, t) == <<key, user_id, t>>

issue(user_id, key, t) ==
    [kind |-> "cookie", user_id |-> user_id, issued |-> t, mac |-> Mac(key, user_id, t)]

validate(tok, key, t) ==
    IF /\ tok.kind = "cookie"
       /\ tok.mac = Mac(key, tok.user_id, tok.issued)
       /\ t < tok.issued + SESSION_TTL
    THEN Some(tok.user_id)
    ELSE None

\* One field of a cookie altered without the key.
Tampered(tok) ==
    { [tok EXCEPT !.user_id = @ + 1], [tok EXCEPT !.issued = @ + SESSION_TTL] }

\* What a client can put in a request: nothing, junk, a cookie it was given,
\* or such a cookie altered.
Presentable == {NoToken, Malformed} \cup issued \cup UNION {Tampered(c) : c \in issued}

(***************************************************************************)
(* HTTP responses of the handlers (handlers.rs).  A message built with     *)
(* format! is the sequence of its pieces.                                  *)
(***************************************************************************)
Http(handler, status, body, cookie) ==
    [handler |-> handler, status |-> status, body |-> body, set_cookie |-> cookie]
ApiResponse(success, message) == [success |-> success, message |-> message]
StatusResponse(success, power_state) == [success |-> success, power_state |-> power_state]
NoResponse == Http("none", 0, ApiResponse(FALSE, <<>>), NoToken)

ErrorText(e) == e.cause
trim_is_empty(s) == s \in {"", " "}

check_auth(tok, key, t) ==
    LET user_id == validate(tok, key, t)
    IN  IF user_id.some THEN Ok(user_id.val)
        ELSE Err(ApiResponse(FALSE, <<"Not authenticated">>))

(***************************************************************************)
(* PowerControlClient (idrac.rs).  A reply is what one round trip to the   *)
(* management controller yields: no connection, or a status and a body.    *)
(***************************************************************************)
ResetTypes == {"On", "ForceOff", "GracefulShutdown"}
StatusCodes == {200, 201, 204, 401, 500}
Bodies == {"", "overheated", "{}", "[]", "{\"PowerState\":\"On\"}", "{\"PowerState\":5}"}

ConnectError == [kind |-> "error"]
\* readable: whether the body could be read off the connection in full.
Response(status, body, readable) ==
    [kind |-> "response", status |-> status, body |-> body, readable |-> readable]
\* What was sent of a body that broke off does not matter to the client.
Replies ==
    {ConnectError} \cup
    {Response(s, b, TRUE) : s \in StatusCodes, b \in Bodies} \cup
    {Response(s, "", FALSE) : s \in StatusCodes}

canonical_reason(s) ==
    CASE s = 200 -> "OK"
      [] s = 201 -> "Created"
      [] s = 202 -> "Accepted"
      [] s = 204 -> "No Content"
      [] s = 301 -> "Moved Permanently"
      [] s = 400 -> "Bad Request"
      [] s = 401 -> "Unauthorized"
      [] s = 404 -> "Not Found"
      [] s = 500 -> "Internal Server Error"
      [] s = 503 -> "Service Unavailable"
      [] OTHER -> "<unknown status code>"

\* Display of a StatusCode: the number, then its canonical reason.
StatusDisplay(s) == <<ToString(s), " ", canonical_reason(s)>>

\* response.text().await.unwrap_or_default()
text_or_default(reply) == IF reply.readable THEN reply.body ELSE ""

\* response.json::<serde_json::Value>(): the parsed document's PowerState
\* member (indexing a document that is not an object yields Null).
json(reply) ==
    IF ~reply.readable THEN Err("error decoding response body")
    ELSE CASE reply.body = "{}" -> Ok([PowerState |-> None])
           [] reply.body = "[]" -> Ok([PowerState |-> None])
           [] reply.body = "{\"PowerState\":\"On\"}" ->
                 Ok([PowerState |-> Some([type |-> "string", str |-> "On"])])
           [] reply.body = "{\"PowerState\":5}" ->
                 Ok([PowerState |-> Some([type |-> "number", str |-> "5"])])
           [] OTHER -> Err("error decoding response body")

\* A member that is a number read as the string of its digits.
as_str_lenient(member) ==
    IF member.some THEN Some(member.val.str) ELSE None

\* data["PowerState"].as_str()
as_str(member) ==
    IF member.some /\ member.val.type = "string" THEN Some(member.val.str) ELSE None

\* A request as it goes on the wire.
Request(method, path, payload) ==
    [method |-> method, url |-> <<"base_url", path>>,
     headers |-> {<<"Authorization", "Basic">>, <<"Content-Type", "application/json">>},
     payload |-> payload]

get_power_state_request ==
    Request("GET", "/redfish/v1/Systems/System.Embedded.1", None)

get_power_state(reply) ==
    IF reply.kind = "error"
    THEN Err(<<"Failed to connect to iDRAC: ", "error sending request">>)
    ELSE IF reply.status = 200
    THEN LET data == json(reply)
         IN  IF ~data.ok THEN Err(<<"Failed to parse response: ", data.err>>)
             ELSE LET s == as_str(data.val.PowerState)
                  IN  Ok(IF s.some THEN s.val ELSE "Unknown")
    ELSE Err(<<"Failed to get power state: HTTP ">> \o StatusDisplay(reply.status))

\* Every 2xx status taken for success.
set_power_state_any_2xx(reset_type, reply) ==
    IF reply.kind = "error"
    THEN Err(<<"Failed to connect to iDRAC: ", "error sending request">>)
    ELSE IF reply.status >= 200 /\ reply.status < 300
    THEN Ok(<<"Successfully executed: ", reset_type>>)
    ELSE Err(<<"Failed to set power state: HTTP ">> \o StatusDisplay(reply.status)
             \o <<" - ", text_or_default(reply)>>)

set_power_state(reset_type, reply) ==
    IF reply.kind = "error"
    THEN Err(<<"Failed to connect to iDRAC: ", "error sending request">>)
    ELSE IF reply.status = 204 \/ reply.status = 200
    THEN Ok(<<"Successfully executed: ", reset_type>>)
    ELSE Err(<<"Failed to set power state: HTTP ">> \o StatusDisplay(reply.status)
             \o <<" - ", text_or_default(reply)>>)

set_power_state_request(reset_type) ==
    Request("POST", "/redfish/v1/Systems/System.Embedded.1/Actions/ComputerSystem.Reset",
            Some([ResetType |-> reset_type]))

\* One run of a method: the request it sends and, given the reply, what it
\* returns.
get_power_state_exchange(reply) ==
    [request |-> get_power_state_request, res |-> get_power_state(reply)]
set_power_state_exchange(reset_type, reply) ==
    [logged |-> <<"Sending power command: ", reset_type>>,
     request |-> set_power_state_request(reset_type),
     res |-> set_power_state(reset_type, reply)]

\* power_off asking for a restart.
power_off_exchange_restart(reply) == set_power_state_exchange("ForceRestart", reply)

power_on_exchange(reply) == set_power_state_exchange("On", reply)
power_off_exchange(reply) == set_power_state_exchange("ForceOff", reply)
graceful_shutdown_exchange(reply) == set_power_state_exchange("GracefulShutdown", reply)

power_on(reply) == power_on_exchange(reply).res
power_off(reply) == power_off_exchange(reply).res
graceful_shutdown(reply) == graceful_shutdown_exchange(reply).res

Methods == {"get_power_state", "power_on", "power_off", "graceful_shutdown"}
exchange(m, reply) ==
    CASE m = "get_power_state" -> get_power_state_exchange(reply)
      [] m = "power_on" -> power_on_exchange(reply)
      [] m = "power_off" -> power_off_exchange(reply)
      [] m = "graceful_shutdown" -> graceful_shutdown_exchange(reply)

(***************************************************************************)
(* The handlers (handlers.rs), as functions of the request, the table, the *)
(* serving process's key and the clock.                                    *)
(***************************************************************************)
Form(u, pw, c) == [username |-> u, password |-> pw, confirm_password |-> c]
RegisterForms ==
    { Form("alice", "password1", "password1"), Form("Alice", "password1", "password1"),
      Form(" ", "password1", "password1"), Form("alice", "", ""),
      Form("alice", "short", "short"), Form("alice", "password1", "password2") }
LoginForms == [username : Usernames \cup {" "}, password : Passwords]
GatewaySalts == {1}
PowerHandlers ==
    {"power_status", "power_on_handler", "power_off_handler", "graceful_shutdown_handler"}
GatewayReplies ==
    { ConnectError, Response(200, "{\"PowerState\":\"On\"}", TRUE),
      Response(500, "overheated", TRUE) }

\* The page a response carries (include_str!), or its plain text.
Page(name) == [page |-> name]
Text(pieces) == [text |-> pieces]

index(d, tok, key, t, env) ==
    IF validate(tok, key, t).some
    THEN Http("index", 200, Page("dashboard.html"), NoToken)
    ELSE LET h == has_users(d, env)
         IN  IF ~h.ok
             THEN Http("index", 500, Text(<<"Database error: ", ErrorText(h.err)>>), NoToken)
             ELSE IF h.val
             THEN Http("index", 200, Page("login.html"), NoToken)
             ELSE Http("index", 200, Page("register.html"), NoToken)

\* register without its has_users() match: registration never closes.
register_check_open(d, env) ==
    [proceed |-> TRUE, response |-> NoResponse]

\* register, up to and including its has_users() match.
register_check(d, env) ==
    LET h == has_users(d, env)
    IN  IF ~h.ok
        THEN [proceed |-> FALSE,
              response |-> Http("register", 500,
                  ApiResponse(FALSE, <<"Database error: ", ErrorText(h.err)>>), NoToken)]
        ELSE IF h.val
        THEN [proceed |-> FALSE,
              response |-> Http("register", 403,
                  ApiResponse(FALSE, <<"Registration is closed. An account already exists.">>),
                  NoToken)]
        ELSE [proceed |-> TRUE, response |-> NoResponse]

\* register, from the form checks to the end.
register_create(d, form, salt, key, t, env) ==
    IF trim_is_empty(form.username) \/ form.password = ""
    THEN [db |-> d, response |-> Http("register", 400,
              ApiResponse(FALSE, <<"Username and password are required">>), NoToken)]
    ELSE IF form.password # form.confirm_password
    THEN [db |-> d, response |-> Http("register", 400,
              ApiResponse(FALSE, <<"Passwords do not match">>), NoToken)]
    ELSE IF Len(form.password) < 8
    THEN [db |-> d, response |-> Http("register", 400,
              ApiResponse(FALSE, <<"Password must be at least 8 characters">>), NoToken)]
    ELSE LET c == create_user(d, form.username, form.password, salt, env)
         IN  IF c.res.ok
             THEN [db |-> c.db, response |-> Http("register", 200,
                       ApiResponse(TRUE, <<"Account created successfully">>),
                       issue(c.res.val, key, t))]
             ELSE [db |-> c.db, response |-> Http("register", 500,
                       ApiResponse(FALSE, <<"Failed to create user: ", ErrorText(c.res.err)>>),
                       NoToken)]

\* login that opens a session for any known username.
login_known_user(d, form, key, t, env) ==
    IF trim_is_empty(form.username) \/ form.password = ""
    THEN Http("login", 400,
              ApiResponse(FALSE, <<"Username and password are required">>), NoToken)
    ELSE LET named == {u \in d.users : u.username = form.username}
         IN  IF ~env.pool
             THEN Http("login", 500,
                       ApiResponse(FALSE, <<"Database error: ", PoolError.cause>>), NoToken)
             ELSE IF named # {}
             THEN Http("login", 200, ApiResponse(TRUE, <<"Login successful">>),
                       issue((CHOOSE u \in named : TRUE).id, key, t))
             ELSE Http("login", 401,
                       ApiResponse(FALSE, <<"Invalid username or password">>), NoToken)

\* login without its check for an empty username or password.
login_unchecked_form(d, form, key, t, env) ==
    LET v == verify_user(d, form.username, form.password, env)
    IN  IF ~v.ok
        THEN Http("login", 500,
                  ApiResponse(FALSE, <<"Database error: ", ErrorText(v.err)>>), NoToken)
        ELSE IF v.val.some
        THEN Http("login", 200, ApiResponse(TRUE, <<"Login successful">>),
                  issue(v.val.val.id, key, t))
        ELSE Http("login", 401,
                  ApiResponse(FALSE, <<"Invalid username or password">>), NoToken)

login(d, form, key, t, env) ==
    IF trim_is_empty(form.username) \/ form.password = ""
    THEN Http("login", 400,
              ApiResponse(FALSE, <<"Username and password are required">>), NoToken)
    ELSE LET v == verify_user(d, form.username, form.password, env)
         IN  IF ~v.ok
             THEN Http("login", 500,
                       ApiResponse(FALSE, <<"Database error: ", ErrorText(v.err)>>), NoToken)
             ELSE IF v.val.some
             THEN Http("login", 200, ApiResponse(TRUE, <<"Login successful">>),
                       issue(v.val.val.id, key, t))
             ELSE Http("login", 401,
                       ApiResponse(FALSE, <<"Invalid username or password">>), NoToken)

\* session.purge(): the response tells the client to drop its cookie.
logout == Http("logout", 200, ApiResponse(TRUE, <<"Logged out successfully">>), Removal)

\* The client method each power handler calls.
client_call(h, reply) ==
    CASE h = "power_status" -> get_power_state(reply)
      [] h = "power_on_handler" -> power_on(reply)
      [] h = "power_off_handler" -> power_off(reply)
      [] h = "graceful_shutdown_handler" -> graceful_shutdown(reply)

\* A handler that calls the client first and looks at the session afterwards.
power_handler_call_first(h, tok, key, t, reply) ==
    LET r == client_call(h, reply)
    IN  IF ~check_auth(tok, key, t).ok
        THEN [sent |-> 1,
              response |-> Http(h, 401, ApiResponse(FALSE, <<"Not authenticated">>), NoToken)]
        ELSE [sent |-> 1,
              response |->
                  IF ~r.ok THEN Http(h, 500, ApiResponse(FALSE, r.err), NoToken)
                  ELSE IF h = "power_status"
                  THEN Http(h, 200, StatusResponse(TRUE, r.val), NoToken)
                  ELSE Http(h, 200, ApiResponse(TRUE, r.val), NoToken)]

\* power_status, power_on_handler, power_off_handler, graceful_shutdown_handler:
\* the response, and how many requests went to the management controller.
power_handler(h, tok, key, t, reply) ==
    IF ~check_auth(tok, key, t).ok
    THEN [sent |-> 0,
          response |-> Http(h, 401, ApiResponse(FALSE, <<"Not authenticated">>), NoToken)]
    ELSE LET r == client_call(h, reply)
         IN  [sent |-> 1,
              response |->
                  IF ~r.ok THEN Http(h, 500, ApiResponse(FALSE, r.err), NoToken)
                  ELSE IF h = "power_status"
                  THEN Http(h, 200, StatusResponse(TRUE, r.val), NoToken)
                  ELSE Http(h, 200, ApiResponse(TRUE, r.val), NoToken)]

(***************************************************************************)
(* State shared by the specifications.                                     *)
(***************************************************************************)
NoError == [kind |-> "none", cause |-> ""]
At(pc, err) == [pc |-> pc, err |-> err]
Idle == [pc |-> "idle", p |-> 0]
NoCall == [op |-> "none"]

Serving(p) == initpc[p].pc = "ok"

dbVars == <<db, initpc>>
gatewayVars == <<reg, issued, now, resp, remoteCalls, authPassed, secret_key>>
storeVars == <<last, created>>
clientVars == <<ret, calls, requests, invocations>>

\* The cookie a response sets is one more cookie in clients' hands.
Handed(response) ==
    IF response.set_cookie.kind = "cookie"
    THEN issued \cup {response.set_cookie}
    ELSE issued

(***************************************************************************)
(* Database::new (database.rs 21-64), one action per statement that        *)
(* touches the storage location.  When it returns Ok, main goes on to draw *)
(* its cookie key and to serve (main.rs 51-75).                            *)
(***************************************************************************)
\* create_dir_all, Connection::open, Pool::new, CREATE TABLE IF NOT EXISTS
NewSchema(p) ==
    /\ initpc[p].pc = "start"
    /\ db' = [db EXCEPT !.schema = TRUE]
    /\ initpc' = [initpc EXCEPT ![p] = At("schema", NoError)]
    /\ UNCHANGED <<gatewayVars, storeVars, clientVars>>

\* Database::new inserting admin without asking has_users().
NewHasUsers_skipped(p, env) ==
    /\ initpc[p].pc = "schema"
    /\ initpc' = [initpc EXCEPT ![p] = At("empty", NoError)]
    /\ UNCHANGED <<db, gatewayVars, storeVars, clientVars>>

\* if !db.has_users()?
NewHasUsers(p, env) ==
    /\ initpc[p].pc = "schema"
    /\ LET h == has_users(db, env)
       IN  /\ initpc' = [initpc EXCEPT ![p] =
                            IF ~h.ok THEN At("failed", h.err)
                            ELSE IF h.val THEN At("ok", NoError)
                            ELSE At("empty", NoError)]
           /\ secret_key' = IF h.ok /\ h.val THEN [secret_key EXCEPT ![p] = generate(@)]
                            ELSE secret_key
    /\ UNCHANGED <<db, reg, issued, now, resp, remoteCalls, authPassed,
                   storeVars, clientVars>>

\* db.create_user("admin", "")?; Ok(db)
NewCreateAdmin(p, salt, env) ==
    /\ initpc[p].pc = "empty"
    /\ LET c == create_user(db, "admin", "", salt, env)
       IN  /\ db' = c.db
           /\ initpc' = [initpc EXCEPT ![p] =
                            IF c.res.ok THEN At("ok", NoError) ELSE At("failed", c.res.err)]
           /\ secret_key' = IF c.res.ok THEN [secret_key EXCEPT ![p] = generate(@)]
                            ELSE secret_key
    /\ UNCHANGED <<reg, issued, now, resp, remoteCalls, authPassed,
                   storeVars, clientVars>>

(***************************************************************************)
(* The handlers as actions of a serving process.                           *)
(***************************************************************************)
RegisterCheck(p, r, env) ==
    /\ Serving(p)
    /\ reg[r].pc = "idle"
    /\ LET c == register_check(db, env)
       IN  /\ reg' = [reg EXCEPT ![r] = IF c.proceed THEN [pc |-> "checked", p |-> p] ELSE @]
           /\ resp' = IF c.proceed THEN resp ELSE c.response
    /\ UNCHANGED <<dbVars, issued, now, remoteCalls, authPassed, secret_key,
                   storeVars, clientVars>>

RegisterCreate(r, form, salt, env) ==
    /\ reg[r].pc = "checked"
    /\ LET out == register_create(db, form, salt, secret_key[reg[r].p], now, env)
       IN  /\ Cardinality(Handed(out.response)) <= MaxTokens
           /\ db' = out.db
           /\ resp' = out.response
           /\ issued' = Handed(out.response)
    /\ reg' = [reg EXCEPT ![r] = Idle]
    /\ UNCHANGED <<initpc, now, remoteCalls, authPassed, secret_key,
                   storeVars, clientVars>>

Index(p, tok, env) ==
    /\ Serving(p)
    /\ resp' = index(db, tok, secret_key[p], now, env)
    /\ UNCHANGED <<dbVars, reg, issued, now, remoteCalls, authPassed, secret_key,
                   storeVars, clientVars>>

Login(p, form, env) ==
    /\ Serving(p)
    /\ LET out == login(db, form, secret_key[p], now, env)
       IN  /\ Cardinality(Handed(out)) <= MaxTokens
           /\ resp' = out
           /\ issued' = Handed(out)
    /\ UNCHANGED <<dbVars, reg, now, remoteCalls, authPassed, secret_key,
                   storeVars, clientVars>>

\* A logout that draws a new key, so that no earlier cookie verifies.
Logout_new_key(p) ==
    /\ Serving(p)
    /\ resp' = logout
    /\ secret_key' = [secret_key EXCEPT ![p] = generate(@)]
    /\ UNCHANGED <<dbVars, reg, issued, now, remoteCalls, authPassed, storeVars, clientVars>>

Logout(p) ==
    /\ Serving(p)
    /\ resp' = logout
    /\ UNCHANGED <<dbVars, reg, issued, now, remoteCalls, authPassed, secret_key,
                   storeVars, clientVars>>

Power(p, h, tok, reply) ==
    /\ Serving(p)
    /\ LET out == power_handler(h, tok, secret_key[p], now, reply)
       IN  /\ remoteCalls + out.sent <= MaxRemote
           /\ resp' = out.response
           /\ remoteCalls' = remoteCalls + out.sent
    /\ authPassed' = authPassed + (IF check_auth(tok, secret_key[p], now).ok THEN 1 ELSE 0)
    /\ UNCHANGED <<dbVars, reg, issued, now, secret_key, storeVars, clientVars>>

\* The process ends (it is stopped, or Database::new failed and main
\* returned) and main is run again; the requests it was serving go with it.
Restart(p) ==
    /\ initpc[p].pc \in {"ok", "failed"}
    /\ generate(secret_key[p]).n \in KeyDraws
    /\ initpc' = [initpc EXCEPT ![p] = At("start", NoError)]
    /\ reg' = [r \in RegIds |-> IF reg[r].p = p THEN Idle ELSE reg[r]]
    /\ UNCHANGED <<db, issued, now, resp, remoteCalls, authPassed, secret_key,
                   storeVars, clientVars>>

Tick ==
    /\ \E t \in TimePoints : t > now /\ now' = t
    /\ UNCHANGED <<dbVars, reg, issued, resp, remoteCalls, authPassed, secret_key,
                   storeVars, clientVars>>

(***************************************************************************)
(* Spec: the gateway serving over a users table with no rows, the state    *)
(* register's Ok(false) arm and index's registration page are written for. *)
(***************************************************************************)
Init ==
    /\ db = EmptyDb
    /\ initpc = [p \in Procs |-> IF p = 1 THEN At("ok", NoError) ELSE At("off", NoError)]
    /\ reg = [r \in RegIds |-> Idle]
    /\ issued = {}
    /\ now = 0
    /\ resp = NoResponse
    /\ remoteCalls = 0
    /\ authPassed = 0
    /\ last = NoCall
    /\ created = <<>>
    /\ ret = NoCall
    /\ calls = [c \in CallIds |-> NoCall]
    /\ requests = 0
    /\ invocations = 0
    /\ secret_key = [p \in Procs |-> IF p = 1 THEN generate(NoKey(p)) ELSE NoKey(p)]

Next ==
    \/ \E p \in Procs : Restart(p)
    \/ \E p \in Procs : NewSchema(p)
    \/ \E p \in Procs, env \in PoolEnvs : NewHasUsers(p, env)
    \/ \E p \in Procs, salt \in GatewaySalts, env \in Envs : NewCreateAdmin(p, salt, env)
    \/ \E p \in Procs, r \in RegIds, env \in PoolEnvs : RegisterCheck(p, r, env)
    \/ \E r \in RegIds, form \in RegisterForms, salt \in GatewaySalts, env \in Envs :
          RegisterCreate(r, form, salt, env)
    \/ \E p \in Procs, tok \in Presentable, env \in PoolEnvs : Index(p, tok, env)
    \/ \E p \in Procs, form \in LoginForms, env \in PoolEnvs : Login(p, form, env)
    \/ \E p \in Procs : Logout(p)
    \/ \E p \in Procs, h \in PowerHandlers, tok \in Presentable, reply \in GatewayReplies :
          Power(p, h, tok, reply)
    \/ Tick

Spec == Init /\ [][Next]_vars

(***************************************************************************)
(* SpecBoot: the program from a fresh storage location.  Two processes run *)
(* main on the same DATABASE_PATH; each serves once its Database::new has  *)
(* returned Ok.  register never gets past its has_users() match here (no   *)
(* request is ever "checked"), so its second half is not among the steps.  *)
(***************************************************************************)
InitBoot ==
    /\ db = FreshDb
    /\ initpc = [p \in Procs |-> At("start", NoError)]
    /\ reg = [r \in RegIds |-> Idle]
    /\ issued = {}
    /\ now = 0
    /\ resp = NoResponse
    /\ remoteCalls = 0
    /\ authPassed = 0
    /\ last = NoCall
    /\ created = <<>>
    /\ ret = NoCall
    /\ calls = [c \in CallIds |-> NoCall]
    /\ requests = 0
    /\ invocations = 0
    /\ secret_key = [p \in Procs |-> NoKey(p)]

NextBoot ==
    \/ \E p \in Procs : Restart(p)
    \/ \E p \in Procs : NewSchema(p)
    \/ \E p \in Procs, env \in PoolEnvs : NewHasUsers(p, env)
    \/ \E p \in Procs, salt \in Salts, env \in Envs : NewCreateAdmin(p, salt, env)
    \/ \E p \in Procs, r \in RegIds, env \in PoolEnvs : RegisterCheck(p, r, env)
    \/ \E p \in Procs, tok \in Presentable, env \in PoolEnvs : Index(p, tok, env)
    \/ \E p \in Procs, form \in LoginForms, env \in PoolEnvs : Login(p, form, env)
    \/ \E p \in Procs : Logout(p)
    \/ \E p \in Procs, h \in PowerHandlers, tok \in Presentable, reply \in GatewayReplies :
          Power(p, h, tok, reply)
    \/ Tick

SpecBoot == InitBoot /\ [][NextBoot]_vars

(***************************************************************************)
(* SpecStore: the Database methods called directly, in any order and with  *)
(* any arguments, on a store that Database::new has initialised.           *)
(***************************************************************************)
UserIds == 1..(Cardinality(Usernames) + 1)

CallCreateUser(username, password, salt, env) ==
    /\ LET c == create_user(db, username, password, salt, env)
       IN  /\ db' = c.db
           /\ last' = [op |-> "create_user", username |-> username,
                       password |-> password, env |-> env, res |-> c.res]
           /\ created' = IF c.res.ok
                         THEN [u \in DOMAIN created \cup {username} |->
                                 IF u = username
                                 THEN [id |-> c.res.val, password |-> password]
                                 ELSE created[u]]
                         ELSE created
    /\ UNCHANGED <<initpc, gatewayVars, clientVars>>

CallVerifyUser(username, password, env) ==
    /\ last' = [op |-> "verify_user", username |-> username, password |-> password,
                env |-> env, res |-> verify_user(db, username, password, env)]
    /\ UNCHANGED <<dbVars, created, gatewayVars, clientVars>>

CallGetUserById(user_id, env) ==
    /\ last' = [op |-> "get_user_by_id", user_id |-> user_id, env |-> env,
                res |-> get_user_by_id(db, user_id, env)]
    /\ UNCHANGED <<dbVars, created, gatewayVars, clientVars>>

CallHasUsers(env) ==
    /\ last' = [op |-> "has_users", env |-> env, res |-> has_users(db, env)]
    /\ UNCHANGED <<dbVars, created, gatewayVars, clientVars>>

InitStore ==
    /\ \E salt \in Salts : db = create_user(EmptyDb, "admin", "", salt, EnvOk).db
    /\ initpc = [p \in Procs |-> IF p = 1 THEN At("ok", NoError) ELSE At("off", NoError)]
    /\ reg = [r \in RegIds |-> Idle]
    /\ issued = {}
    /\ now = 0
    /\ resp = NoResponse
    /\ remoteCalls = 0
    /\ authPassed = 0
    /\ last = NoCall
    /\ created = [u \in {"admin"} |-> [id |-> 1, password |-> ""]]
    /\ ret = NoCall
    /\ calls = [c \in CallIds |-> NoCall]
    /\ requests = 0
    /\ invocations = 0
    /\ secret_key = [p \in Procs |-> IF p = 1 THEN generate(NoKey(p)) ELSE NoKey(p)]

NextStore ==
    \/ \E u \in Usernames, pw \in Passwords, salt \in Salts, env \in Envs :
          CallCreateUser(u, pw, salt, env)
    \/ \E u \in Usernames, pw \in Passwords, env \in PoolEnvs : CallVerifyUser(u, pw, env)
    \/ \E i \in UserIds, env \in PoolEnvs : CallGetUserById(i, env)
    \/ \E env \in PoolEnvs : CallHasUsers(env)

SpecStore == InitStore /\ [][NextStore]_vars

(***************************************************************************)
(* SpecClient: the PowerControlClient methods called directly against a    *)
(* management controller that may answer anything.                         *)
(***************************************************************************)
\* What a call that has returned leaves in ret.
Returned(m, x, reply, sent) ==
    IF m = "get_power_state"
    THEN [op |-> m, request |-> x.request, reply |-> reply, res |-> x.res, sent |-> sent]
    ELSE [op |-> m, logged |-> x.logged, request |-> x.request, reply |-> reply,
          res |-> x.res, sent |-> sent]

\* A method is called: it builds its request and sends it (.send()).
Send(c, m) ==
    /\ calls[c].op = "none"
    /\ invocations < MaxInvocations
    /\ calls' = [calls EXCEPT ![c] = [op |-> m, pc |-> "awaiting", sent |-> 1]]
    /\ requests' = requests + 1
    /\ invocations' = invocations + 1
    /\ UNCHANGED <<dbVars, gatewayVars, storeVars, ret>>

\* A call whose connect error makes it send its request once more.
Return_retry(c, reply) ==
    /\ calls[c].op # "none"
    /\ calls[c].pc = "awaiting"
    /\ IF reply.kind = "error" /\ calls[c].sent < 2
       THEN /\ calls' = [calls EXCEPT ![c].sent = @ + 1]
            /\ requests' = requests + 1
            /\ UNCHANGED ret
       ELSE /\ calls' = [calls EXCEPT ![c] = NoCall]
            /\ ret' = Returned(calls[c].op, exchange(calls[c].op, reply), reply,
                               calls[c].sent)
            /\ UNCHANGED requests
    /\ UNCHANGED <<dbVars, gatewayVars, storeVars, invocations>>

\* .await resolves with the controller's reply, or with the connection's
\* failure, and the method returns.
Return(c, reply) ==
    /\ calls[c].op # "none"
    /\ calls[c].pc = "awaiting"
    /\ calls' = [calls EXCEPT ![c] = NoCall]
    /\ ret' = Returned(calls[c].op, exchange(calls[c].op, reply), reply, calls[c].sent)
    /\ UNCHANGED <<dbVars, gatewayVars, storeVars, requests, invocations>>

\* The controller has accepted the connection and will send nothing on it.
\* The client was built with no timeout (from_env), so nothing else resolves
\* the .await.
Silence(c) ==
    /\ calls[c].op # "none"
    /\ calls[c].pc = "awaiting"
    /\ calls' = [calls EXCEPT ![c].pc = "unanswered"]
    /\ UNCHANGED <<dbVars, gatewayVars, storeVars, ret, requests, invocations>>

NextClient ==
    \/ \E c \in CallIds, m \in Methods : Send(c, m)
    \/ \E c \in CallIds, reply \in Replies : Return(c, reply)
    \/ \E c \in CallIds : Silence(c)

InitClient == InitStore

SpecClient == InitClient /\ [][NextClient]_vars

\* The steps in which call c returns: the Return(c, reply) steps.
Returns(c) ==
    /\ calls[c].op # "none"
    /\ calls[c].pc = "awaiting"
    /\ calls' = [calls EXCEPT ![c] = NoCall]

\* SpecClientLive: a call whose reply or connection failure is there to be
\* had gets it (the runtime polls every future that can make progress).
SpecClientLive == SpecClient /\ \A c \in CallIds : WF_calls(Returns(c))

(***************************************************************************)
(* Properties.                                                             *)
(***************************************************************************)
Range(f) == {f[i] : i \in DOMAIN f}
NotAuthenticated == ApiResponse(FALSE, <<"Not authenticated">>)

\* C1: in every step, the requests sent to the management controller grow by
\* exactly the number of power requests that passed check_auth in that step,
\* and a power request that did not pass is answered 401 "Not authenticated"
\* with nothing sent.
C1_NoRemoteCallWithoutAuth ==
    [][ /\ remoteCalls' + authPassed = authPassed' + remoteCalls
        /\ (resp' # resp /\ resp'.handler \in PowerHandlers /\ authPassed' = authPassed)
              => /\ resp'.status = 401
                 /\ resp'.body = NotAuthenticated
                 /\ remoteCalls' = remoteCalls ]_vars

\* A rejected power request, after an authenticated one reached the controller.
C1_Witness ==
    /\ remoteCalls > 0
    /\ resp.handler \in PowerHandlers
    /\ resp.status = 401

\* C2: once Database::new has returned Ok for a fresh location, has_users()
\* is true and the table holds exactly one account, admin with the hash of
\* the empty password, in that state and every later one.
C2_BootstrapAdmin ==
    (\E p \in Procs : Serving(p)) =>
        /\ has_users(db, EnvOk) = Ok(TRUE)
        /\ Cardinality(db.users) = 1
        /\ \A u \in db.users : u.username = "admin" /\ verify("", u.password_hash)

\* Both Database::new calls have returned Ok and a register request was refused.
C2_Witness ==
    /\ \A p \in Procs : Serving(p)
    /\ resp.handler = "register"
    /\ resp.status = 403

C4_AtomicBootstrap ==
    /\ \A p \in Procs : initpc[p].err # UniqueViolation
    /\ (\A p \in Procs : initpc[p].pc = "ok")
          => Cardinality({u \in db.users : u.username = "admin"}) = 1

\* C5: a create_user for a username that an earlier create_user created
\* fails and leaves the table as it was; the error is the UNIQUE constraint
\* failure whatever the password, and it is not the error a failed pool or a
\* failed hash produces.
C5_DuplicateUsername ==
    [][ (last'.op = "create_user" /\ last'.username \in DOMAIN created)
          => /\ ~last'.res.ok
             /\ db' = db
             /\ last'.env = EnvOk => last'.res.err = UniqueViolation
             /\ last'.env # EnvOk => last'.res.err # UniqueViolation
             /\ UniqueViolation \notin {PoolError, HashError} ]_vars

\* A second create_user of a registered name, with another password, refused.
C5_Witness ==
    /\ last.op = "create_user"
    /\ last.username \in DOMAIN created
    /\ last.password # created[last.username].password
    /\ last.res = Err(UniqueViolation)

\* C6: verify_user(u, p), for a pair that create_user(u, p) accepted with id
\* i, returns the user record whose id is i, whatever calls came in between.
C6_CreateThenVerify ==
    (/\ last.op = "verify_user"
     /\ last.env.pool
     /\ last.username \in DOMAIN created
     /\ last.password = created[last.username].password)
        => /\ last.res.ok
           /\ last.res.val.some
           /\ last.res.val.val.id = created[last.username].id
           /\ last.res.val.val.username = last.username

\* A user other than the bootstrap account, created second or later, verified.
C6_Witness ==
    /\ last.op = "verify_user"
    /\ last.res.ok
    /\ last.res.val.some
    /\ last.res.val.val.id > 2
    /\ Cardinality(db.users) > 2

\* C7: for every login form whose username exists with another password,
\* verify_user and login answer exactly as they do on the same table without
\* that user: Ok(None), and 401 "Invalid username or password", no cookie.
C7_MissesIndistinguishable ==
    \A form \in LoginForms, env \in PoolEnvs, u \in db.users :
        (u.username = form.username /\ ~verify(form.password, u.password_hash))
        => LET without == [db EXCEPT !.users = @ \ {u}]
           IN  /\ verify_user(db, form.username, form.password, env)
                    = verify_user(without, form.username, form.password, env)
               /\ env.pool => verify_user(db, form.username, form.password, env) = Ok(None)
               /\ \A p \in Procs :
                     login(db, form, secret_key[p], now, env)
                        = login(without, form, secret_key[p], now, env)

\* A login refused with 401 while one registered user and one unknown name exist.
C7_Witness ==
    /\ resp.handler = "login"
    /\ resp.status = 401
    /\ resp.set_cookie = NoToken
    /\ \E u \in db.users : u.username = "alice"
    /\ ~(\E u \in db.users : u.username = "Alice")

C9_HashNeverReturned ==
    (last.op \in {"verify_user", "get_user_by_id"} /\ last.res.ok /\ last.res.val.some)
        => "password_hash" \notin DOMAIN last.res.val.val

\* C10: a reset operation that got a response succeeds exactly when the status
\* is 200 or 204; otherwise its error message holds the status number and
\* the body text the response delivered.
C10_ResetStatus ==
    (ret.op \in {"power_on", "power_off", "graceful_shutdown"} /\ ret.reply.kind = "response")
        => /\ ret.res.ok <=> ret.reply.status \in {200, 204}
           /\ ~ret.res.ok =>
                 /\ ToString(ret.reply.status) \in Range(ret.res.err)
                 /\ ret.reply.readable => ret.reply.body \in Range(ret.res.err)

\* power_off answered 500 "overheated".
C10_Witness ==
    /\ ret.op = "power_off"
    /\ ret.reply = Response(500, "overheated", TRUE)
    /\ ~ret.res.ok
    /\ "500" \in Range(ret.res.err)
    /\ "overheated" \in Range(ret.res.err)

\* C11: a reset operation that returned had sent one POST to the reset action
\* endpoint whose body names its reset type, On for power_on, ForceOff for
\* power_off, GracefulShutdown for graceful_shutdown, the three requests alike
\* in everything else; its success message names the reset type it sent; and
\* get_power_state sends no reset type at all.
C11_ResetTypeSent ==
    /\ ret.op \in {"power_on", "power_off", "graceful_shutdown"} =>
          /\ ret.request.method = "POST"
          /\ ret.request.url =
                <<"base_url", "/redfish/v1/Systems/System.Embedded.1/Actions/ComputerSystem.Reset">>
          /\ ret.request.headers =
                {<<"Authorization", "Basic">>, <<"Content-Type", "application/json">>}
          /\ ret.request.payload.some
          /\ ret.request.payload.val =
                [ResetType |-> CASE ret.op = "power_on" -> "On"
                                 [] ret.op = "power_off" -> "ForceOff"
                                 [] ret.op = "graceful_shutdown" -> "GracefulShutdown"]
          /\ ret.request.payload.val.ResetType \in ResetTypes
          /\ ret.res.ok =>
                ret.res.val = <<"Successfully executed: ", ret.request.payload.val.ResetType>>
    /\ ret.op = "get_power_state" => ~ret.request.payload.some

\* power_off answered 204: "Successfully executed: ForceOff".
C11_Witness ==
    /\ ret.op = "power_off"
    /\ ret.reply.kind = "response"
    /\ ret.reply.status = 204
    /\ ret.res = Ok(<<"Successfully executed: ", "ForceOff">>)

\* The bodies that are JSON documents.
JsonDocuments == {"{}", "[]", "{\"PowerState\":\"On\"}", "{\"PowerState\":5}"}

\* C12 as stated: get_power_state answered with any success status (2xx) and
\* a parseable body returns a power state.
C12_AnySuccessStatus ==
    ( /\ ret.op = "get_power_state"
      /\ ret.reply.kind = "response"
      /\ ret.reply.status >= 200 /\ ret.reply.status < 300
      /\ ret.reply.readable /\ ret.reply.body \in JsonDocuments )
        => ret.res.ok

\* C12: get_power_state answered with status 200 and a parseable body returns
\* the body's PowerState string, or "Unknown" when the member is missing or
\* not a string; answered with any other status, other 2xx included, it fails
\* with a message holding the status number; answered 200 with a body that
\* does not parse, it fails with a parse failure.
C12_GetPowerState ==
    (ret.op = "get_power_state" /\ ret.reply.kind = "response") =>
        LET r == ret.reply
            parseable == r.readable /\ r.body \in JsonDocuments
        IN  /\ (r.status = 200 /\ parseable) =>
                   ret.res = Ok(IF r.body = "{\"PowerState\":\"On\"}" THEN "On" ELSE "Unknown")
            /\ r.status # 200 =>
                   /\ ~ret.res.ok
                   /\ ret.res.err[1] = "Failed to get power state: HTTP "
                   /\ ToString(r.status) \in Range(ret.res.err)
            /\ (r.status = 200 /\ ~parseable) =>
                   /\ ~ret.res.ok
                   /\ ret.res.err[1] = "Failed to parse response: "

\* get_power_state answered 200 {"PowerState":5}: "Unknown".
C12_Witness ==
    /\ ret.op = "get_power_state"
    /\ ret.reply = Response(200, "{\"PowerState\":5}", TRUE)
    /\ ret.res = Ok("Unknown")

\* C13: as many requests have gone on the wire as calls were started; a call
\* in progress has sent one request and a call that returned, with a value,
\* a status failure or a connect failure, had sent one; a call waiting for
\* its reply can return whatever the other caller's call is doing, and what
\* it returns is decided by its own reply alone.
C13_OneRequestPerInvocation ==
    /\ requests = invocations
    /\ \A c \in CallIds : calls[c].op # "none" => calls[c].sent = 1
    /\ ret.op # "none" =>
          /\ ret.sent = 1
          /\ ret.res = exchange(ret.op, ret.reply).res
    /\ \A c \in CallIds :
          (calls[c].op # "none" /\ calls[c].pc = "awaiting") =>
             ENABLED (\E reply \in Replies : Return(c, reply))

\* Two calls started, one returned with a connect failure while the other
\* was still in progress: two requests.
C13_Witness ==
    /\ invocations = 2
    /\ requests = 2
    /\ ret.op # "none"
    /\ ret.reply = ConnectError
    /\ \E c \in CallIds : calls[c].op # "none"

\* C14: every call that was started returns.
C14_EveryCallReturns ==
    \A c \in CallIds : (calls[c].op # "none") ~> (calls[c].op = "none")

\* C15: a logout step leaves the users table, the keys and the cookies in
\* clients' hands as they were and only tells the client to drop its cookie;
\* after it, every cookie issued under the process's key less than 24 hours
\* ago still validates to its user_id and takes a request on any power route
\* through to the controller.
C15_LogoutKeepsSessions ==
    [][ (resp' # resp /\ resp'.handler = "logout") =>
          /\ UNCHANGED <<db, secret_key, issued>>
          /\ resp'.set_cookie = Removal
          /\ \A p \in Procs, c \in issued :
                (Serving(p) /\ c.mac[1] = secret_key[p] /\ now < c.issued + 24) =>
                   /\ check_auth(c, secret_key'[p], now') = Ok(c.user_id)
                   /\ \A h \in PowerHandlers, reply \in GatewayReplies :
                         power_handler(h, c, secret_key'[p], now', reply).sent = 1 ]_vars

\* Just after a logout, with a cookie about that had reached the controller
\* before and still passes check_auth.
C15_Witness ==
    /\ resp.handler = "logout"
    /\ remoteCalls > 0
    /\ \E p \in Procs, c \in issued :
          Serving(p) /\ check_auth(c, secret_key[p], now) = Ok(c.user_id)

\* C16: a process that is serving keeps its key; every cookie issued under
\* the key of a serving process validates there until 24 hours have passed,
\* and a cookie issued under any other key does not; when a process starts
\* serving, every cookie issued before then fails validation under its key,
\* expired or not.
C16_KeyPerProcessStart ==
    [][ /\ \A p \in Procs :
              (Serving(p) /\ Serving(p)') => secret_key'[p] = secret_key[p]
        /\ \A p \in Procs, c \in issued' :
              Serving(p)' =>
                 /\ (c.mac[1] = secret_key'[p] /\ now' < c.issued + 24) =>
                       check_auth(c, secret_key'[p], now') = Ok(c.user_id)
                 /\ c.mac[1] # secret_key'[p] => ~check_auth(c, secret_key'[p], now').ok
        /\ \A p \in Procs :
              (~Serving(p) /\ Serving(p)') =>
                 \A c \in issued : ~check_auth(c, secret_key'[p], now').ok ]_vars

\* After a restart, the only cookie about is one issued under the first key
\* less than 24 hours ago; it had reached the controller, and now a power
\* request is refused.
C16_Witness ==
    /\ Serving(1)
    /\ secret_key[1].n = 2
    /\ \E c \in issued : issued = {c} /\ c.mac[1].n = 1 /\ now < c.issued + 24
    /\ remoteCalls > 0
    /\ resp.handler \in PowerHandlers
    /\ resp.status = 401

\* C17: every user record of one state is a record of the next, with the
\* same id, username and password_hash; and a step of Database::new on a
\* table that holds a record leaves the records as they are.
C17_UsersNeverChange ==
    [][ /\ \A u \in db.users : u \in db'.users
        /\ (db.users # {} /\ initpc' # initpc) => db'.users = db.users ]_vars

\* A process serving again after a restart, over a table whose one account
\* was registered before: Database::new added none.
C17_Witness ==
    /\ Serving(1)
    /\ secret_key[1].n = 2
    /\ Cardinality(db.users) = 1
    /\ \A u \in db.users : u.username # "admin"

\* C18: after every call, no two user records share a username or an id;
\* and a create_user for a username that no record spells in exactly the
\* same way, upper and lower case told apart, adds that record.
C18_UniqueUsers ==
    [][ /\ \A u1, u2 \in db'.users :
              (u1.username = u2.username \/ u1.id = u2.id) => u1 = u2
        /\ ( /\ last'.op = "create_user"
             /\ last'.env = EnvOk
             /\ ~\E u \in db.users : u.username = last'.username )
              => /\ last'.res.ok
                 /\ \E u \in db'.users :
                       u.username = last'.username /\ u.id = last'.res.val ]_vars

\* alice and Alice are both accounts, and a further create_user was refused
\* for its username.
C18_Witness ==
    /\ \E u1, u2 \in db.users : u1.username = "alice" /\ u2.username = "Alice"
    /\ last.op = "create_user"
    /\ last.env = EnvOk
    /\ ~last.res.ok

\* C19 as stated: every login ends with a session or with 401 and no session.
C19_SessionOr401 ==
    resp.handler = "login" =>
        \/ resp.status = 200 /\ resp.set_cookie.kind = "cookie"
        \/ resp.status = 401 /\ resp.set_cookie = NoToken

\* C19: every login ends in exactly one of: 400 when the username is blank or
\* the password empty, 500 when the store fails, 200 with a session when
\* some record has that username and a hash the password verifies against,
\* 401 otherwise; the session carries that record's id, and the other three
\* outcomes create none.
C19_LoginOutcomes ==
    /\ resp.handler = "login" =>
          \/ /\ resp.status = 200
             /\ resp.set_cookie.kind = "cookie"
             /\ \E u \in db.users : u.id = resp.set_cookie.user_id
          \/ resp.status \in {400, 401, 500} /\ resp.set_cookie = NoToken
    /\ \A p \in Procs, form \in LoginForms, env \in PoolEnvs :
          Serving(p) =>
             LET out == login(db, form, secret_key[p], now, env)
                 blank == form.username \in {"", " "} \/ form.password = ""
                 matched == {u \in db.users : /\ u.username = form.username
                                              /\ verify(form.password, u.password_hash)}
             IN  /\ out.status = 400 <=> blank
                 /\ out.status = 500 <=> (~blank /\ ~env.pool)
                 /\ out.status = 200 <=> (~blank /\ env.pool /\ matched # {})
                 /\ out.status = 401 <=> (~blank /\ env.pool /\ matched = {})
                 /\ out.status = 200 =>
                       \E u \in matched :
                          /\ out.set_cookie.kind = "cookie"
                          /\ out.set_cookie.user_id = u.id
                          /\ check_auth(out.set_cookie, secret_key[p], now) = Ok(u.id)
                 /\ out.status # 200 => out.set_cookie = NoToken

\* A login with a blank field answered 400, over a table that holds an
\* account and with a session already open.
C19_Witness ==
    /\ resp.handler = "login"
    /\ resp.status = 400
    /\ resp.set_cookie = NoToken
    /\ db.users # {}
    /\ issued # {}

\* C20: from a fresh location no cookie is ever handed out, nothing a client
\* can present passes check_auth at a serving process, every power request
\* is answered 401, every register request 403 (or 500 when the store
\* fails), every login 400, 401 or 500, and nothing is sent to the
\* controller.
C20_BootstrapAdmitsNobody ==
    /\ issued = {}
    /\ remoteCalls = 0
    /\ authPassed = 0
    /\ resp.set_cookie.kind # "cookie"
    /\ \A p \in Procs, tok \in Presentable :
          Serving(p) => ~check_auth(tok, secret_key[p], now).ok
    /\ resp.handler \in PowerHandlers => resp.status = 401
    /\ resp.handler = "register" => resp.status \in {403, 500}
    /\ resp.handler = "login" => resp.status \in {400, 401, 500}
    /\ \A p \in Procs, form \in LoginForms :
          Serving(p) => login(db, form, secret_key[p], now, EnvOk).status \in {400, 401}

\* Both processes serving over the bootstrap admin, and a login with a
\* non-empty password answered 401.
C20_Witness ==
    /\ \A p \in Procs : Serving(p)
    /\ \A u \in db.users : u.username = "admin"
    /\ resp.handler = "login"
    /\ resp.status = 401

\* C21 as stated: every register request that a process answers after its
\* Database::new returned Ok is answered 403.
C21_AlwaysForbidden ==
    resp.handler = "register" => resp.status = 403

\* C21: from a fresh location, once Database::new has returned Ok, no
\* register request gets past the has_users() match to where the form is
\* looked at: it is answered 403 "Registration is closed", or 500 "Database
\* error" when has_users() fails, and hands out no cookie; the only account
\* is admin and no cookie is ever issued; and index serves the login page,
\* or 500 when has_users() fails, never the registration page.
C21_RegistrationClosed ==
    /\ \A r \in RegIds : reg[r].pc = "idle"
    /\ \A u \in db.users : u.username = "admin"
    /\ issued = {}
    /\ resp.handler = "register" =>
          /\ resp.set_cookie = NoToken
          /\ \/ /\ resp.status = 403
                /\ resp.body = ApiResponse(FALSE,
                                   <<"Registration is closed. An account already exists.">>)
             \/ /\ resp.status = 500
                /\ resp.body.message[1] = "Database error: "
    /\ resp.handler = "index" =>
          \/ resp.status = 200 /\ resp.body = Page("login.html")
          \/ resp.status = 500
    /\ \A p \in Procs, env \in PoolEnvs :
          Serving(p) =>
             /\ ~register_check(db, env).proceed
             /\ register_check(db, env).response.status = IF env.pool THEN 403 ELSE 500
             /\ \A tok \in Presentable :
                   index(db, tok, secret_key[p], now, env).body # Page("register.html")

\* A process that was restarted is serving again over the bootstrap admin,
\* and a register request has been answered 403.
C21_Witness ==
    /\ \E p \in Procs : Serving(p) /\ secret_key[p].n = 2
    /\ \A u \in db.users : u.username = "admin"
    /\ resp.handler = "register"
    /\ resp.status = 403

====
